---- MODULE Spec2Model ----
(***************************************************************************)
(* Model of backend/app.py: the four request handlers (create_user,        *)
(* get_user, create_snapshot, list_snapshots) over the two JSON files      *)
(* users.json and snapshots.json.                                          *)
(*                                                                         *)
(* The handlers are plain `def` endpoints, which the framework runs on a   *)
(* thread pool, so several handlers run at once.  Each file access is one  *)
(* step: read_json reads the whole file; write_json is two steps, the      *)
(* open(path, "w") that truncates the file and the dump/close that writes  *)
(* the serialised collection.  No lock is taken anywhere in the source.    *)
(*                                                                         *)
(* Representation.                                                         *)
(*  - A JSON object / Python dict is a sequence of [key, val] entries in   *)
(*    insertion order (json and dict both keep it).                        *)
(*  - None is <<>>, a present optional value x is <<x>>.                   *)
(*  - Numbers are integers; bmi is kept in hundredths (round(x, 2)).       *)
(*    Rounding is Python's round-half-to-even on the exact quotient.       *)
(*  - A timestamp string is a sequence of digits compared                  *)
(*    lexicographically, as Python compares str.                           *)
(*  - A date-of-birth string is <<y, m, d>>, or <<>> when strptime would   *)
(*    reject it.                                                           *)
(*  - A handler's outcome is what the function returns or raises; the      *)
(*    framework's own response serialisation is outside the model.         *)
(***************************************************************************)
EXTENDS Integers, Sequences, FiniteSets, Bags, TLC

VARIABLES
    usersFile,   \* data/users.json
    snapFile,    \* data/snapshots.json
    clock,       \* the system clock
    uuidCtr,     \* number of uuid4() values drawn so far
    calls,       \* number of requests received so far
    inflight,    \* the handlers running on the pool's workers (a bag of
                 \* activation records: position, request, locals)
    last,        \* the response most recently returned to a caller
    delivered    \* every snapshot returned by a successful create_snapshot

vars == <<usersFile, snapFile, clock, uuidCtr, calls, inflight, last, delivered>>

\* ---------------------------------------------------------------- bounds
\* workers of the thread pool that run handlers at the same time
NumThreads == 2
\* requests received in one run
MaxCalls == 3

\* ------------------------------------------------------- optional values
None == <<>>
Some(x) == <<x>>
IsNone(o) == Len(o) = 0
Val(o) == o[1]

\* ------------------------------------------------------------ dict model
Keys(c) == {c[i].key : i \in DOMAIN c}
Has(c, k) == \E i \in DOMAIN c : c[i].key = k
Lookup(c, k) == c[CHOOSE i \in DOMAIN c : c[i].key = k].val
\* d[k] = v : replaces in place when the key exists, appends otherwise
Put(c, k, v) ==
    IF Has(c, k)
    THEN [i \in DOMAIN c |-> IF c[i].key = k THEN [key |-> k, val |-> v] ELSE c[i]]
    ELSE Append(c, [key |-> k, val |-> v])

\* -------------------------------------------------------------- files
\* state: "valid" (a complete JSON document), "empty" (just truncated),
\* "garbled" (a shorter document written over a longer one)
EmptyDoc == [state |-> "valid", ents |-> <<>>]

read_json(file) == [ok |-> file.state = "valid", data |-> file.ents]

\* open(path, "w")
OpenW(file) == [state |-> "empty", ents |-> <<>>]

SubColl(a, b) == \A i \in DOMAIN a : \E j \in DOMAIN b : b[j] = a[i]

\* json.dump + close: the writer's bytes go to offset 0 of whatever the file
\* holds now.  On an empty file that is the document.  On a file another
\* writer filled meanwhile the result depends on the two byte lengths: the
\* new document when it is at least as long, otherwise the new document
\* followed by the tail of the old one, which does not parse.
DumpOutcomes(file, data) ==
    LET good == [state |-> "valid", ents |-> data]
        bad  == [state |-> "garbled", ents |-> <<>>]
    IN  IF file.state = "empty" THEN {good}
        ELSE IF file.state = "valid" /\ SubColl(file.ents, data) THEN {good}
        ELSE IF file.state = "valid" /\ SubColl(data, file.ents) THEN {bad}
        ELSE {good, bad}

\* --------------------------------------------------------------- strings
Lower(s) ==
    CASE s = "Male" -> "male"
      [] s = "MALE" -> "male"
      [] s = "Female" -> "female"
      [] OTHER -> s

\* Python str comparison a < b
RECURSIVE StrLess(_, _)
StrLess(a, b) ==
    IF Len(b) = 0 THEN FALSE
    ELSE IF Len(a) = 0 THEN TRUE
    ELSE IF Head(a) < Head(b) THEN TRUE
    ELSE IF Head(a) > Head(b) THEN FALSE
    ELSE StrLess(Tail(a), Tail(b))

\* ----------------------------------------------------------------- clock
\* date.today() and datetime.utcnow() read the same clock; one tick is a day
Today(c) == <<2026, 5, 19 + c>>
IsoFormat(c) == <<2, 0, 2, 6, 0, 5, (19 + c) \div 10, (19 + c) % 10>>

\* --------------------------------------------------------------- metrics
RoundHalfEven(n, d) ==
    LET q == n \div d
        r == n % d
    IN  IF 2 * r < d THEN q
        ELSE IF 2 * r > d THEN q + 1
        ELSE IF q % 2 = 0 THEN q ELSE q + 1

DobValid(dob) == Len(dob) = 3

age_from_dob(dob, today) ==
    today[1] - dob[1]
      - (IF today[2] < dob[2] \/ (today[2] = dob[2] /\ today[3] < dob[3])
         THEN 1 ELSE 0)

\* result in hundredths, None when the height is not positive
calculate_bmi(weight_kg, height_cm) ==
    IF height_cm <= 0 THEN None
    ELSE Some(RoundHalfEven(weight_kg * 10000 * 100, height_cm * height_cm))

\* Mifflin-St Jeor, computed in quarters
calculate_bmr(weight_kg, height_cm, age, sex) ==
    LET base4 == 40 * weight_kg + 25 * height_cm - 20 * age
    IN  IF Lower(sex) = "male"
        THEN RoundHalfEven(base4 + 20, 4)
        ELSE RoundHalfEven(base4 - 644, 4)

\* factors in thousandths
ACTIVITY_FACTORS(level) ==
    CASE level = "sedentary" -> 1200
      [] level = "light" -> 1375
      [] level = "moderate" -> 1550
      [] level = "active" -> 1725
      [] level = "very_active" -> 1900
      [] OTHER -> 1200

calculate_tdee(bmr, activity_level) ==
    RoundHalfEven(bmr * ACTIVITY_FACTORS(activity_level), 1000)

\* ------------------------------------------------------- request bodies
UserIds == {"u1", "u2"}

\* UserCreate bodies a caller may post (activity_level may be left out)
UserInputs ==
    { [user_id |-> "u1", name |-> "Ann", dob |-> <<1990, 5, 20>>, sex |-> "Male",
       height_cm |-> 175, weight_kg |-> 70, activity_level |-> Some("moderate")],
      [user_id |-> "u2", name |-> "Eve", dob |-> <<2001, 1, 2>>, sex |-> "female",
       height_cm |-> 0, weight_kg |-> 60, activity_level |-> None],
      [user_id |-> "u1", name |-> "Bob", dob |-> <<>>, sex |-> "other",
       height_cm |-> 160, weight_kg |-> 55, activity_level |-> Some("bogus")] }

\* SnapshotCreate bodies a caller may post
SnapshotInputs ==
    { [weight_kg |-> 70, height_cm |-> None, activity_level |-> None,
       sleep_hours |-> None, calories_intake |-> None, notes |-> None,
       timestamp |-> None],
      [weight_kg |-> 80, height_cm |-> Some(0), activity_level |-> Some(""),
       sleep_hours |-> Some(7), calories_intake |-> None, notes |-> Some("n"),
       timestamp |-> Some(<<2, 0, 2, 5>>)],
      [weight_kg |-> 65, height_cm |-> Some(180), activity_level |-> Some("very_active"),
       sleep_hours |-> None, calories_intake |-> Some(2000), notes |-> None,
       timestamp |-> Some(<<>>)] }

\* u.dict(): the body with the model's default for activity_level applied
UserDict(u) ==
    [user_id |-> u.user_id, name |-> u.name, dob |-> u.dob, sex |-> u.sex,
     height_cm |-> u.height_cm, weight_kg |-> u.weight_kg,
     activity_level |-> IF IsNone(u.activity_level) THEN "sedentary"
                        ELSE Val(u.activity_level)]

\* users[uid] = u.dict(); users[uid]["created_at"] = utcnow().isoformat()
StoredUser(u, now) ==
    [user_id |-> u.user_id, name |-> u.name, dob |-> u.dob, sex |-> u.sex,
     height_cm |-> u.height_cm, weight_kg |-> u.weight_kg,
     activity_level |-> UserDict(u).activity_level,
     created_at |-> IsoFormat(now)]

\* {"id": uid, **u.dict()}
UserOut(uid, d) ==
    [id |-> uid, user_id |-> d.user_id, name |-> d.name, dob |-> d.dob,
     sex |-> d.sex, height_cm |-> d.height_cm, weight_kg |-> d.weight_kg,
     activity_level |-> d.activity_level]

\* ------------------------------------------------- handler decision logic
\* the id check left out
UserIdTaken_Never(users, uid) == FALSE

\* `if uid in users`
UserIdTaken(users, uid) == Has(users, uid)

\* get_user: `if user_id not in users`
GetUserMissing(users, user_id) == ~Has(users, user_id)

\* the check inverted into one that always fires
SnapshotUserMissing_Always(users, user_id) == TRUE

\* create_snapshot: `if user_id not in users`
SnapshotUserMissing(users, user_id) == ~Has(users, user_id)

\* list_snapshots: `if user_id not in users`
ListUserMissing(users, user_id) == ~Has(users, user_id)

\* `s.height_cm or user.get("height_cm")`: a zero height taken for a missing one
ResolveHeight_FalsyZero(s, user) ==
    IF ~IsNone(s.height_cm) /\ Val(s.height_cm) # 0
    THEN Val(s.height_cm) ELSE user.height_cm

\* s.height_cm if s.height_cm is not None else user.get("height_cm")
ResolveHeight(s, user) ==
    IF ~IsNone(s.height_cm) THEN Val(s.height_cm) ELSE user.height_cm

\* s.activity_level if s.activity_level else user.get("activity_level", "sedentary")
ResolveActivity(s, user) ==
    IF ~IsNone(s.activity_level) /\ Val(s.activity_level) # ""
    THEN Val(s.activity_level)
    ELSE IF "activity_level" \in DOMAIN user THEN user.activity_level
    ELSE "sedentary"

\* s.timestamp or utcnow().isoformat()
ResolveTimestamp(s, now) ==
    IF ~IsNone(s.timestamp) /\ Len(Val(s.timestamp)) > 0
    THEN Val(s.timestamp) ELSE IsoFormat(now)

\* the record create_snapshot stores under the new id
SnapshotRecord(user_id, s, user, now) ==
    LET height == ResolveHeight(s, user)
        activity_level == ResolveActivity(s, user)
        weight == s.weight_kg
        age == age_from_dob(user.dob, Today(now))
        bmr == calculate_bmr(weight, height, age, user.sex)
    IN  [user_id |-> user_id,
         timestamp |-> ResolveTimestamp(s, now),
         weight_kg |-> weight,
         height_cm |-> height,
         activity_level |-> activity_level,
         sleep_hours |-> s.sleep_hours,
         calories_intake |-> s.calories_intake,
         notes |-> s.notes,
         bmi |-> calculate_bmi(weight, height),
         bmr |-> bmr,
         tdee |-> calculate_tdee(bmr, activity_level)]

\* {"id": sid, **snap}
SnapshotOut(sid, snap) ==
    [id |-> sid, user_id |-> snap.user_id, timestamp |-> snap.timestamp,
     weight_kg |-> snap.weight_kg, height_cm |-> snap.height_cm,
     activity_level |-> snap.activity_level, sleep_hours |-> snap.sleep_hours,
     calories_intake |-> snap.calories_intake, notes |-> snap.notes,
     bmi |-> snap.bmi, bmr |-> snap.bmr, tdee |-> snap.tdee]

\* the loop of list_snapshots: the user's entries, in file order
RECURSIVE UserSnaps(_, _)
UserSnaps(snaps, user_id) ==
    IF Len(snaps) = 0 THEN <<>>
    ELSE LET e == Head(snaps)
             rest == UserSnaps(Tail(snaps), user_id)
         IN  IF e.val.user_id = user_id
             THEN <<SnapshotOut(e.key, e.val)>> \o rest
             ELSE rest

\* list.sort(key=timestamp): stable, ascending
RECURSIVE InsertByTimestamp(_, _)
InsertByTimestamp(sorted, x) ==
    IF Len(sorted) = 0 THEN <<x>>
    ELSE IF StrLess(x.timestamp, Head(sorted).timestamp)
         THEN <<x>> \o sorted
         ELSE <<Head(sorted)>> \o InsertByTimestamp(Tail(sorted), x)

\* the sort left out
SortByTimestamp_Unsorted(s) == s

RECURSIVE SortByTimestamp(_)
SortByTimestamp(s) ==
    IF Len(s) = 0 THEN <<>>
    ELSE InsertByTimestamp(SortByTimestamp(SubSeq(s, 1, Len(s) - 1)), s[Len(s)])

\* ------------------------------------------------------------ state
NoLoc == [users |-> <<>>, user |-> <<>>, snaps |-> <<>>, sid |-> 0, rec |-> <<>>]
NoLast == [op |-> "none", user_id |-> "", status |-> "none", body |-> <<>>,
           known |-> {}]

\* a users.json left by an earlier run of the service
SeededUsers ==
    [state |-> "valid",
     ents |-> <<[key |-> "u1",
                 val |-> [user_id |-> "u1", name |-> "Ann", dob |-> <<1990, 5, 20>>,
                          sex |-> "Male", height_cm |-> 175, weight_kg |-> 70,
                          activity_level |-> "moderate",
                          created_at |-> IsoFormat(0)]]>>]

\* module start-up: a missing file is created as {} and an existing one is kept
Init ==
    /\ usersFile \in {EmptyDoc, SeededUsers}
    /\ snapFile = EmptyDoc
    /\ clock = 0
    /\ uuidCtr = 0
    /\ calls = 0
    /\ inflight = EmptyBag
    /\ last = NoLast
    /\ delivered = {}

\* datetime.utcnow() / date.today(): a reading no earlier than the last one
ClockReadings == {0, 1}
Now == {c \in ClockReadings : c >= clock}

Running == BagToSet(inflight)
At(label) == {h \in Running : h.pc = label}

\* a request is handed to a free worker of the pool
Accept ==
    /\ BagCardinality(inflight) < NumThreads
    /\ calls < MaxCalls
    /\ calls' = calls + 1

Request(op, user_id, body) == [op |-> op, user_id |-> user_id, body |-> body]

\* a handler starts running and stops after its first step
Start(h) == inflight' = inflight (+) SetToBag({h})

\* a running handler moves on
Step(h, g) == inflight' = (inflight (-) SetToBag({h})) (+) SetToBag({g})

\* a running handler returns or raises
Stop(h) == inflight' = inflight (-) SetToBag({h})

\* the response goes out to the caller
Respond(rq, kn, status, body) ==
    last' = [op |-> rq.op, user_id |-> rq.user_id, status |-> status,
             body |-> body, known |-> kn]

\* ---------------------------------------------------------- create_user
\* the request arrives; read_json(USERS_FILE), the id check, and the new
\* record built in memory
CreateUserRead ==
    /\ Accept
    /\ \E u \in UserInputs :
         LET r == read_json(usersFile)
             rq == Request("create_user", u.user_id, u)
         IN  IF ~r.ok
             THEN Respond(rq, {}, "JSONDecodeError", <<>>) /\ UNCHANGED <<clock, inflight>>
             ELSE IF UserIdTaken(r.data, u.user_id)
             THEN Respond(rq, {}, "Conflict", <<>>) /\ UNCHANGED <<clock, inflight>>
             ELSE \E now \in Now :
                  /\ clock' = now
                  /\ Start([pc |-> "cu_open", req |-> rq, known |-> {},
                            loc |-> [NoLoc EXCEPT !.users =
                                       Put(r.data, u.user_id, StoredUser(u, now))]])
                  /\ UNCHANGED last
    /\ UNCHANGED <<usersFile, snapFile, uuidCtr, delivered>>

\* write_json: open(USERS_FILE, "w")
CreateUserOpen ==
    /\ \E h \in At("cu_open") : Step(h, [h EXCEPT !.pc = "cu_dump"])
    /\ usersFile' = OpenW(usersFile)
    /\ UNCHANGED <<snapFile, clock, uuidCtr, calls, last, delivered>>

\* write_json: json.dump and close, then the return
CreateUserDump ==
    /\ \E h \in At("cu_dump") :
         /\ usersFile' \in DumpOutcomes(usersFile, h.loc.users)
         /\ Respond(h.req, {}, "ok", UserOut(h.req.user_id, UserDict(h.req.body)))
         /\ Stop(h)
    /\ UNCHANGED <<snapFile, clock, uuidCtr, calls, delivered>>

\* -------------------------------------------------------------- get_user
GetUser ==
    /\ Accept
    /\ \E id \in UserIds :
         LET r == read_json(usersFile)
             rq == Request("get_user", id, <<>>)
         IN  IF ~r.ok THEN Respond(rq, {}, "JSONDecodeError", <<>>)
             ELSE IF GetUserMissing(r.data, id) THEN Respond(rq, {}, "NotFound", <<>>)
             ELSE Respond(rq, {}, "ok", UserOut(id, Lookup(r.data, id)))
    /\ UNCHANGED <<usersFile, snapFile, clock, uuidCtr, inflight, delivered>>

\* ------------------------------------------------------- create_snapshot
\* the request arrives; read_json(USERS_FILE), the existence check and the
\* computed fields
CreateSnapshotUsers ==
    /\ Accept
    /\ \E id \in UserIds, s \in SnapshotInputs :
         LET r == read_json(usersFile)
             rq == Request("create_snapshot", id, s)
         IN  IF ~r.ok
             THEN Respond(rq, {}, "JSONDecodeError", <<>>) /\ UNCHANGED <<clock, inflight>>
             ELSE IF SnapshotUserMissing(r.data, id)
             THEN Respond(rq, {}, "NotFound", <<>>) /\ UNCHANGED <<clock, inflight>>
             ELSE IF ~DobValid(Lookup(r.data, id).dob)
             THEN Respond(rq, {}, "ValueError", <<>>) /\ UNCHANGED <<clock, inflight>>
             ELSE \E now \in Now :
                  /\ clock' = now
                  /\ Start([pc |-> "cs_snaps", req |-> rq, known |-> {},
                            loc |-> [NoLoc EXCEPT
                                       !.user = Lookup(r.data, id),
                                       !.rec = SnapshotRecord(id, s, Lookup(r.data, id), now)]])
                  /\ UNCHANGED last
    /\ UNCHANGED <<usersFile, snapFile, uuidCtr, delivered>>

\* read_json(SNAP_FILE), uuid4 and the new entry added in memory
CreateSnapshotSnaps ==
    /\ \E h \in At("cs_snaps") :
         LET r == read_json(snapFile)
             sid == uuidCtr + 1
         IN  IF ~r.ok
             THEN /\ Respond(h.req, {}, "JSONDecodeError", <<>>)
                  /\ Stop(h)
                  /\ UNCHANGED uuidCtr
             ELSE /\ uuidCtr' = sid
                  /\ Step(h, [h EXCEPT !.pc = "cs_open", !.loc.sid = sid,
                                       !.loc.snaps = Put(r.data, sid, h.loc.rec)])
                  /\ UNCHANGED last
    /\ UNCHANGED <<usersFile, snapFile, clock, calls, delivered>>

\* write_json: open(SNAP_FILE, "w")
CreateSnapshotOpen ==
    /\ \E h \in At("cs_open") : Step(h, [h EXCEPT !.pc = "cs_dump"])
    /\ snapFile' = OpenW(snapFile)
    /\ UNCHANGED <<usersFile, clock, uuidCtr, calls, last, delivered>>

\* write_json: json.dump and close, then the return
CreateSnapshotDump ==
    /\ \E h \in At("cs_dump") :
         /\ snapFile' \in DumpOutcomes(snapFile, h.loc.snaps)
         /\ Respond(h.req, {}, "ok", SnapshotOut(h.loc.sid, h.loc.rec))
         /\ delivered' = delivered \cup {SnapshotOut(h.loc.sid, h.loc.rec)}
         /\ Stop(h)
    /\ UNCHANGED <<usersFile, clock, uuidCtr, calls>>

\* -------------------------------------------------------- list_snapshots
\* the request arrives (its caller holds the snapshots returned so far);
\* read_json(USERS_FILE) and the existence check
ListSnapshotsUsers ==
    /\ Accept
    /\ \E id \in UserIds :
         LET r == read_json(usersFile)
             rq == Request("list_snapshots", id, <<>>)
             kn == {d \in delivered : d.user_id = id}
         IN  IF ~r.ok
             THEN Respond(rq, kn, "JSONDecodeError", <<>>) /\ UNCHANGED inflight
             ELSE IF ListUserMissing(r.data, id)
             THEN Respond(rq, kn, "NotFound", <<>>) /\ UNCHANGED inflight
             ELSE /\ Start([pc |-> "ls_snaps", req |-> rq, known |-> kn, loc |-> NoLoc])
                  /\ UNCHANGED last
    /\ UNCHANGED <<usersFile, snapFile, clock, uuidCtr, delivered>>

\* read_json(SNAP_FILE), the filter loop, the sort and the return
ListSnapshotsSnaps ==
    /\ \E h \in At("ls_snaps") :
         LET r == read_json(snapFile)
         IN  /\ IF ~r.ok THEN Respond(h.req, h.known, "JSONDecodeError", <<>>)
                ELSE Respond(h.req, h.known, "ok",
                             SortByTimestamp(UserSnaps(r.data, h.req.user_id)))
             /\ Stop(h)
    /\ UNCHANGED <<usersFile, snapFile, clock, uuidCtr, calls, delivered>>

\* ------------------------------------------------------------------ spec
Next ==
    \/ CreateUserRead
    \/ CreateUserOpen
    \/ CreateUserDump
    \/ GetUser
    \/ CreateSnapshotUsers
    \/ CreateSnapshotSnaps
    \/ CreateSnapshotOpen
    \/ CreateSnapshotDump
    \/ ListSnapshotsUsers
    \/ ListSnapshotsSnaps

Spec == Init /\ [][Next]_vars

\* ================================================================ claims
\* the handlers that started in this step, and the one that stopped
Started == BagToSet(inflight' (-) inflight)
StoppedAt(label) == {h \in At(label) : inflight' = inflight (-) SetToBag({h})}
\* a request that was answered in the step it arrived in
AnsweredAtOnce(op) == calls' = calls + 1 /\ inflight' = inflight /\ last'.op = op
Quiescent == inflight = EmptyBag
UsersValid == usersFile.state = "valid"
SnapsValid == snapFile.state = "valid"

\* C1: no creation is lost: once every creation has returned, the snapshot
\* collection holds every snapshot a create_snapshot returned.
C1_NoLostCreation ==
    Quiescent =>
        \A r \in delivered : SnapsValid /\ Has(snapFile.ents, r.id)

\* C2: create_user with an id already in the profile store answers Conflict,
\* never goes on to write, and leaves both collections as they were.
C2_Step ==
    /\ (AnsweredAtOnce("create_user") /\ last'.status = "Conflict")
          => /\ UsersValid
             /\ Has(usersFile.ents, last'.user_id)
             /\ usersFile' = usersFile
             /\ snapFile' = snapFile
    /\ \A h \in Started :
          (h.pc = "cu_open" /\ UsersValid) => ~Has(usersFile.ents, h.req.user_id)

C2_ConflictLeavesStore == [][C2_Step]_vars

C2_Witness ==
    /\ last.op = "create_user"
    /\ last.status = "Conflict"
    /\ UsersValid
    /\ Has(usersFile.ents, last.user_id)

\* C3: create_snapshot for a user id that is not in the profile store answers
\* NotFound, never goes on, and leaves both collections as they were.
C3_Step ==
    /\ (AnsweredAtOnce("create_snapshot") /\ last'.status = "NotFound")
          => /\ UsersValid
             /\ ~Has(usersFile.ents, last'.user_id)
             /\ usersFile' = usersFile
             /\ snapFile' = snapFile
             /\ delivered' = delivered
    /\ \A h \in Started :
          (h.pc = "cs_snaps" /\ UsersValid) => Has(usersFile.ents, h.req.user_id)

C3_NotFoundPersistsNothing == [][C3_Step]_vars

C3_Witness ==
    /\ last.op = "create_snapshot"
    /\ last.status = "NotFound"
    /\ UsersValid
    /\ ~Has(usersFile.ents, last.user_id)

\* C4: profile ids are unique and a stored profile is never changed or
\* removed: from one well-formed users collection to the next, every record
\* is still there, identical.
C4_Step ==
    (UsersValid /\ usersFile'.state = "valid") =>
        /\ \A i \in DOMAIN usersFile.ents :
              \E j \in DOMAIN usersFile'.ents : usersFile'.ents[j] = usersFile.ents[i]
        /\ \A i, j \in DOMAIN usersFile'.ents :
              usersFile'.ents[i].key = usersFile'.ents[j].key => i = j

C4_ProfilesNeverLost == [][C4_Step]_vars

\* C5: a snapshot returned by create_snapshot is in every later listing of
\* its user, identical in every field.
C5_RoundTrip ==
    (last.op = "list_snapshots" /\ last.status = "ok") =>
        \A r \in last.known :
            \E i \in DOMAIN last.body : last.body[i] = r

\* C6: list_snapshots for an existing user returns exactly the stored
\* snapshots of that user, ascending by timestamp, and an empty sequence
\* (not an error) when there are none.
C6_Expected(user_id) ==
    {SnapshotOut(snapFile.ents[i].key, snapFile.ents[i].val) :
        i \in {k \in DOMAIN snapFile.ents : snapFile.ents[k].val.user_id = user_id}}

C6_Step ==
    \A h \in StoppedAt("ls_snaps") :
        SnapsValid =>
            /\ last'.status = "ok"
            /\ \A i, j \in DOMAIN last'.body :
                  i < j => ~StrLess(last'.body[j].timestamp, last'.body[i].timestamp)
            /\ {last'.body[i] : i \in DOMAIN last'.body} = C6_Expected(h.req.user_id)
            /\ Len(last'.body) = Cardinality(C6_Expected(h.req.user_id))

C6_ListSortedExact == [][C6_Step]_vars

\* two snapshots listed in an order that is not the order they were stored in
C6_Witness ==
    /\ last.op = "list_snapshots"
    /\ last.status = "ok"
    /\ Len(last.body) >= 2
    /\ last.body[1].id > last.body[2].id
    /\ StrLess(last.body[1].timestamp, last.body[2].timestamp)

\* C7: every stored snapshot belongs to a stored profile.
C7_ReferentialIntegrity ==
    (UsersValid /\ SnapsValid) =>
        \A i \in DOMAIN snapFile.ents :
            Has(usersFile.ents, snapFile.ents[i].val.user_id)

\* C8: no read ever meets a collection that is partly written (a file that
\* does not parse).
C8_NoPartialRead == last.status # "JSONDecodeError"

\* C9: every snapshot stored or returned by create_snapshot has a bmi, a bmr
\* and a tdee, none of them null.
C9_MetricsPresent ==
    /\ \A r \in delivered : ~IsNone(r.bmi)
    /\ SnapsValid =>
          \A i \in DOMAIN snapFile.ents : ~IsNone(snapFile.ents[i].val.bmi)

\* C10: the stored and returned height_cm is the request's when it is given
\* (not null), else the profile's; the activity_level is the request's when
\* it is given and not empty, else the profile's; the profile being the one
\* stored under the user id when the snapshot is created.
C10_Height(s, user) ==
    IF s.height_cm = None THEN user.height_cm ELSE s.height_cm[1]

C10_Activity(s, user) ==
    IF s.activity_level = None \/ s.activity_level = Some("")
    THEN user.activity_level ELSE s.activity_level[1]

C10_Step ==
    /\ \A h \in Started :
          h.pc = "cs_snaps" => h.loc.user = Lookup(usersFile.ents, h.req.user_id)
    /\ \A h \in StoppedAt("cs_dump") :
          /\ last'.body.height_cm = C10_Height(h.req.body, h.loc.user)
          /\ last'.body.activity_level = C10_Activity(h.req.body, h.loc.user)
          /\ snapFile'.state = "valid" =>
                /\ Has(snapFile'.ents, h.loc.sid)
                /\ Lookup(snapFile'.ents, h.loc.sid).height_cm
                      = C10_Height(h.req.body, h.loc.user)
                /\ Lookup(snapFile'.ents, h.loc.sid).activity_level
                      = C10_Activity(h.req.body, h.loc.user)

C10_FieldResolution == [][C10_Step]_vars

\* a stored snapshot whose request gave neither field and that carries the
\* seeded profile's height and activity level
C10_Witness ==
    /\ SnapsValid
    /\ \E i \in DOMAIN snapFile.ents :
          /\ snapFile.ents[i].val.weight_kg = 70
          /\ snapFile.ents[i].val.user_id = "u1"
          /\ snapFile.ents[i].val.height_cm = 175
          /\ snapFile.ents[i].val.activity_level = "moderate"
====
